---- MODULE Spec2Model ----
(***************************************************************************)
(* The McGill course advisor engine (McGillAdvisorAI) as a state machine.  *)
(*                                                                         *)
(* The engine exists in two copies, src/mcgill_advisor.py (the command     *)
(* line program, "root") and src/backend/mcgill_advisor.py (the module the *)
(* HTTP backend imports, "backend").  The variable engine says which copy  *)
(* the advisor object was built from.                                      *)
(*                                                                         *)
(* Numbers.  Python floats are modelled as exact rationals held in         *)
(* integers:                                                               *)
(*   - class averages and GPAs are in tenths of a grade point (35 = 3.5), *)
(*   - confidences and difficulty scores are in tenths (7 = 0.7, 15 = 1.5),*)
(*   - predicted grades are in units of 1/Scale of a grade point, where    *)
(*     Scale = 100 * lcm(1..MaxRows), so that the mean of up to MaxRows    *)
(*     class averages plus a GPA adjustment in thousandths is an integer.  *)
(* NaN (a missing cell) is the integer NaN, outside every value range.     *)
(*                                                                         *)
(* Strings whose characters the code inspects (course codes) are           *)
(* sequences of one-character strings.                                     *)
(***************************************************************************)
EXTENDS Integers, Sequences, FiniteSets, TLC

VARIABLES engine, df, student_profile, ret, previous

vars == <<engine, df, student_profile, ret, previous>>

(***************************************************************************)
(* Bounds of the model.                                                    *)
(***************************************************************************)
\* the largest number of rows of a dataset
MaxRows == 2
\* the largest num_courses passed to get_course_recommendations
MaxCount == 2
\* the largest number of completed courses passed to create_student_profile
MaxCompleted == 1
MaxRankRows == 3
MaxRequests == 2
MaxFrameRows == 2
MaxLines == 3
\* the largest number of completed courses of a profile built once
MaxTaken == 5

(***************************************************************************)
(* Generic helpers.                                                        *)
(***************************************************************************)
Range(s) == {s[i] : i \in 1..Len(s)}

Abs(x) == IF x < 0 THEN -x ELSE x

Min2(a, b) == IF a < b THEN a ELSE b

Max2(a, b) == IF a > b THEN a ELSE b

RECURSIVE Gcd(_, _)
Gcd(a, b) == IF b = 0 THEN a ELSE Gcd(b, a % b)

RECURSIVE LcmUpTo(_)
LcmUpTo(n) == IF n <= 1 THEN 1 ELSE LET l == LcmUpTo(n - 1) IN (l * n) \div Gcd(l, n)

\* one grade point, in the unit predicted grades are held in
Scale == 100 * LcmUpTo(MaxRows)

\* the sequences over S of length at most n
SeqsUpTo(S, n) == UNION {[1..k -> S] : k \in 0..n}

(***************************************************************************)
(* Strings: str.upper(), str.strip(), slicing.                             *)
(***************************************************************************)
LowerLetters ==
    <<"a","b","c","d","e","f","g","h","i","j","k","l","m",
      "n","o","p","q","r","s","t","u","v","w","x","y","z">>

UpperLetters ==
    <<"A","B","C","D","E","F","G","H","I","J","K","L","M",
      "N","O","P","Q","R","S","T","U","V","W","X","Y","Z">>

UpperTable == [i \in 1..Len(LowerLetters) |-> UpperLetters[i]]

LowerIndex == [c \in Range(LowerLetters) |-> CHOOSE i \in 1..Len(LowerLetters) : LowerLetters[i] = c]

UpperChar(c) == IF c \in DOMAIN LowerIndex THEN UpperTable[LowerIndex[c]] ELSE c

\* s.upper()
Upper(s) == [i \in 1..Len(s) |-> UpperChar(s[i])]

IsSpace(c) == c = " "

RECURSIVE LStrip(_)
LStrip(s) == IF s # <<>> /\ IsSpace(Head(s)) THEN LStrip(Tail(s)) ELSE s

RECURSIVE RStrip(_)
RStrip(s) ==
    IF s # <<>> /\ IsSpace(s[Len(s)]) THEN RStrip(SubSeq(s, 1, Len(s) - 1)) ELSE s

\* s.strip()
Strip(s) == RStrip(LStrip(s))

\* s[:n]
Slice(s, n) == SubSeq(s, 1, Min2(n, Len(s)))

(***************************************************************************)
(* Values of the program.                                                  *)
(***************************************************************************)
\* a missing cell (pandas NaN), src/mcgill_advisor.py:128 (errors='coerce')
NaN == -1

\* self.df is None
NoData == [loaded |-> FALSE, columns |-> {}, rows |-> <<>>]

\* self.student_profile = {}
NoProfile ==
    [present |-> FALSE, completed_courses |-> <<>>, current_gpa |-> 0,
     difficulty_preference |-> 2, strong_subjects |-> <<>>]

\* the values of class DifficultyLevel(Enum)
DifficultyLevel == 1..4

MODERATE == 2

\* what a call returned (or that it raised), with the arguments it was given
NoCall ==
    [op |-> "none", raised |-> FALSE, course_code |-> <<>>,
     predicted_grade |-> 0, confidence |-> 0, difficulty_score |-> 0,
     recs |-> <<>>, num_courses |-> 0, exclude_completed |-> FALSE,
     min_credits |-> 0, subject_filter |-> <<>>]

(***************************************************************************)
(* Numbers of the scoring formula (tenths unless said otherwise).          *)
(***************************************************************************)
\* the length of a subject prefix, course[:4]
SubjectLen == 4
\* confidence = 0.3
BaseConfidence == 3
\* confidence += 0.2 (a profile exists)
ProfileConfidence == 2
\* confidence += 0.3 (strong subject)
StrongConfidence == 3
\* confidence += 0.2 (difficulty near the preference)
DifficultyConfidence == 2
\* predicted_grade += 0.2 (strong subject)
StrongBonus == 2
\* the 2.7 of (current_gpa - 2.7) * 0.3
TypicalGpa == 27
\* the 0.3 of (current_gpa - 2.7) * 0.3
GpaWeight == 3
\* return 2.5 (difficulty unknown)
DefaultDifficulty == 25
\* course_row.get('Credits', 3)
DefaultCredits == 3

\* v tenths of a grade point, in the unit of predicted grades
Tenths(v) == v * (Scale \div 10)

\* v hundredths of a grade point, in the unit of predicted grades
Hundredths(v) == v * (Scale \div 100)

(***************************************************************************)
(* Dataset queries: self.df[self.df['Course'] == code], ['Class Ave'].mean *)
(***************************************************************************)
\* self.df[self.df['Course'] == code]
CourseData(d, code) == SelectSeq(d.rows, LAMBDA r : r.Course = code)

RECURSIVE SumAve(_)
SumAve(rows) ==
    IF rows = <<>> THEN 0
    ELSE (IF Head(rows).ClassAve = NaN THEN 0 ELSE Head(rows).ClassAve)
         + SumAve(Tail(rows))

CountAve(rows) == Cardinality({i \in 1..Len(rows) : rows[i].ClassAve # NaN})

\* a faulty variant: the average of the first row stands for the course
FirstAve(rows) ==
    IF CountAve(rows) = 0 THEN NaN
    ELSE Tenths(Head(SelectSeq(rows, LAMBDA r : r.ClassAve # NaN)).ClassAve)

\* course_data['Class Ave'].mean(): NaN cells are skipped, NaN when none is left
MeanAve(rows) ==
    IF CountAve(rows) = 0 THEN NaN
    ELSE Tenths(SumAve(rows)) \div CountAve(rows)

(***************************************************************************)
(* calculate_difficulty_score                                              *)
(***************************************************************************)
\* what a call hands back: a value, or an exception that leaves the call
Returns(v) == [raised |-> FALSE, value |-> v]

KeyError == [raised |-> TRUE, value |-> 0]

\* a faulty variant: a sixth value, 3.1, for averages from 2.7 up to 3.0
DifficultyBandOffGrid(avg_grade) ==
    IF avg_grade >= Tenths(37) THEN 15
    ELSE IF avg_grade >= Tenths(33) THEN 20
    ELSE IF avg_grade >= Tenths(30) THEN 25
    ELSE IF avg_grade >= Tenths(27) THEN 31
    ELSE 35

\* a faulty variant: an average on a threshold falls into the harder band
DifficultyBandStrict(avg_grade) ==
    IF avg_grade > Tenths(37) THEN 15
    ELSE IF avg_grade > Tenths(33) THEN 20
    ELSE IF avg_grade > Tenths(30) THEN 25
    ELSE IF avg_grade > Tenths(27) THEN 30
    ELSE 35

\* the five bands: higher grades = lower difficulty
DifficultyBand(avg_grade) ==
    IF avg_grade >= Tenths(37) THEN 15
    ELSE IF avg_grade >= Tenths(33) THEN 20
    ELSE IF avg_grade >= Tenths(30) THEN 25
    ELSE IF avg_grade >= Tenths(27) THEN 30
    ELSE 35

\* the root copy: self.df['Course'] and course_data['Class Ave'] raise KeyError
\* when the column does not exist
calculate_difficulty_score(d, course_code) ==
    IF ~d.loaded THEN Returns(DefaultDifficulty)
    ELSE IF "Course" \notin d.columns THEN KeyError
    ELSE LET course_data == CourseData(d, Upper(course_code)) IN
         IF course_data = <<>> THEN Returns(DefaultDifficulty)
         ELSE IF "Class Ave" \notin d.columns THEN KeyError
         ELSE IF MeanAve(course_data) = NaN THEN Returns(DefaultDifficulty)
         ELSE Returns(DifficultyBand(MeanAve(course_data)))

\* the backend copy: a missing 'Class Ave' column gives the default
backend_calculate_difficulty_score(d, course_code) ==
    IF ~d.loaded THEN Returns(DefaultDifficulty)
    ELSE IF "Course" \notin d.columns THEN KeyError
    ELSE LET course_data == CourseData(d, Upper(course_code)) IN
         IF course_data = <<>> \/ "Class Ave" \notin d.columns
         THEN Returns(DefaultDifficulty)
         ELSE IF MeanAve(course_data) = NaN THEN Returns(DefaultDifficulty)
         ELSE Returns(DifficultyBand(MeanAve(course_data)))

(***************************************************************************)
(* predict_student_grade                                                   *)
(***************************************************************************)
\* course_code[:4] if len(course_code) >= 4 else ""
SubjectOf(course_code) ==
    IF Len(course_code) >= SubjectLen THEN Slice(course_code, SubjectLen) ELSE <<>>

\* a faulty variant: the grade is returned without the clamp
NoClamp(g) == g

\* max(0.0, min(4.0, predicted_grade))
ClampGrade(g) == Max2(0, Min2(Tenths(40), g))

\* max(0.0, min(1.0, confidence))
ClampConfidence(c) == Max2(0, Min2(10, c))

\* the sentinel (0.0, 0.0)
NoPrediction == Returns(<<0, 0>>)

\* a faulty variant: the confidence bonus of a strong subject is 0.4
PersonalizeStrongBonus(base_average, p, course_code, course_difficulty) ==
    IF ~p.present
    THEN Returns(<<ClampGrade(base_average), ClampConfidence(BaseConfidence)>>)
    ELSE IF course_difficulty.raised THEN KeyError
    ELSE LET strong == SubjectOf(course_code) \in Range(p.strong_subjects)
             near == Abs(course_difficulty.value - 10 * p.difficulty_preference) <= 10
             predicted_grade ==
                 base_average
                 + Hundredths((p.current_gpa - TypicalGpa) * GpaWeight)
                 + (IF strong THEN Tenths(StrongBonus) ELSE 0)
             confidence ==
                 BaseConfidence + ProfileConfidence
                 + (IF strong THEN StrongConfidence + 1 ELSE 0)
                 + (IF near THEN DifficultyConfidence ELSE 0)
         IN Returns(<<ClampGrade(predicted_grade), ClampConfidence(confidence)>>)

\* the lines from "predicted_grade = base_average" to the return, given the
\* difficulty the copy's own calculate_difficulty_score returned
Personalize(base_average, p, course_code, course_difficulty) ==
    IF ~p.present
    THEN Returns(<<ClampGrade(base_average), ClampConfidence(BaseConfidence)>>)
    ELSE IF course_difficulty.raised THEN KeyError
    ELSE LET strong == SubjectOf(course_code) \in Range(p.strong_subjects)
             near == Abs(course_difficulty.value - 10 * p.difficulty_preference) <= 10
             predicted_grade ==
                 base_average
                 + Hundredths((p.current_gpa - TypicalGpa) * GpaWeight)
                 + (IF strong THEN Tenths(StrongBonus) ELSE 0)
             confidence ==
                 BaseConfidence + ProfileConfidence
                 + (IF strong THEN StrongConfidence ELSE 0)
                 + (IF near THEN DifficultyConfidence ELSE 0)
         IN Returns(<<ClampGrade(predicted_grade), ClampConfidence(confidence)>>)

\* the root copy
predict_student_grade(d, p, course_code) ==
    IF ~d.loaded THEN NoPrediction
    ELSE IF "Course" \notin d.columns THEN KeyError
    ELSE LET course_data == CourseData(d, Upper(course_code)) IN
         IF course_data = <<>> THEN NoPrediction
         ELSE IF "Class Ave" \notin d.columns THEN KeyError
         ELSE IF MeanAve(course_data) = NaN THEN NoPrediction
         ELSE Personalize(MeanAve(course_data), p, course_code,
                          calculate_difficulty_score(d, course_code))

\* a faulty variant: the default of .get('current_gpa', 3.0) is used instead
\* of the GPA of the profile
BackendPredictDefaultGpa(d, p, course_code) ==
    IF ~d.loaded THEN NoPrediction
    ELSE IF "Course" \notin d.columns THEN KeyError
    ELSE LET course_data == CourseData(d, Upper(course_code)) IN
         IF course_data = <<>> THEN NoPrediction
         ELSE IF "Class Ave" \notin d.columns THEN NoPrediction
         ELSE IF MeanAve(course_data) = NaN THEN NoPrediction
         ELSE Personalize(MeanAve(course_data), [p EXCEPT !.current_gpa = 30], course_code,
                          backend_calculate_difficulty_score(d, course_code))

\* the backend copy
backend_predict_student_grade(d, p, course_code) ==
    IF ~d.loaded THEN NoPrediction
    ELSE IF "Course" \notin d.columns THEN KeyError
    ELSE LET course_data == CourseData(d, Upper(course_code)) IN
         IF course_data = <<>> THEN NoPrediction
         ELSE IF "Class Ave" \notin d.columns THEN NoPrediction
         ELSE IF MeanAve(course_data) = NaN THEN NoPrediction
         ELSE Personalize(MeanAve(course_data), p, course_code,
                          backend_calculate_difficulty_score(d, course_code))

(***************************************************************************)
(* create_student_profile, _identify_strong_subjects                       *)
(***************************************************************************)
\* subject_counts.head(3)
TopSubjects == 3

\* the list subjects: course[:4] of every completed course of 4 characters or more
SubjectsOf(completed_courses) ==
    LET long == SelectSeq(completed_courses, LAMBDA c : Len(c) >= SubjectLen)
    IN [i \in 1..Len(long) |-> Slice(long[i], SubjectLen)]

SubjectCount(subjects, x) == Cardinality({i \in 1..Len(subjects) : subjects[i] = x})

\* a faulty variant: the distinct subjects in the order they first appear,
\* cut to three (no ordering by count)
StrongSubjectsByAppearance(completed_courses) ==
    LET subjects == SubjectsOf(completed_courses)
        first == {i \in 1..Len(subjects) : \A j \in 1..(i - 1) : subjects[j] # subjects[i]}
        F[i \in 0..Len(subjects)] ==
            IF i = 0 THEN <<>>
            ELSE IF i \in first THEN Append(F[i - 1], subjects[i]) ELSE F[i - 1]
    IN {Slice(F[Len(subjects)], TopSubjects)}

\* pd.Series(subjects).value_counts().head(3).index.tolist(): the distinct
\* subjects by non-increasing count, cut to three.  pandas does not fix the
\* order of subjects with equal counts, so every such order is a possible
\* result; the operator is the set of the lists the call may return.
identify_strong_subjects(completed_courses) ==
    LET subjects == SubjectsOf(completed_courses)
        distinct == Range(subjects)
        n == Cardinality(distinct)
        orders == {o \in [1..n -> distinct] :
                      /\ \A i, j \in 1..n : i # j => o[i] # o[j]
                      /\ \A i, j \in 1..n :
                            i < j => SubjectCount(subjects, o[i]) >= SubjectCount(subjects, o[j])}
    IN {Slice(o, TopSubjects) : o \in orders}

\* completed_courses = [course.upper().strip() for course in completed_courses]
NormalizeCompleted(completed_courses) ==
    [i \in 1..Len(completed_courses) |-> Strip(Upper(completed_courses[i]))]

\* the profiles create_student_profile may store for these arguments
create_student_profile(completed_courses, current_gpa, difficulty_preference) ==
    LET completed == NormalizeCompleted(completed_courses)
    IN {[present |-> TRUE,
         completed_courses |-> completed,
         current_gpa |-> current_gpa,
         difficulty_preference |-> difficulty_preference,
         strong_subjects |-> strong] : strong \in identify_strong_subjects(completed)}

(***************************************************************************)
(* _generate_reasons, _generate_warnings                                   *)
(***************************************************************************)
\* a faulty variant: the difficulty rule is evaluated before the profile rules
ReasonsDifficultyFirst(p, course_code, pred_grade, difficulty, class_avg) ==
    (IF pred_grade >= Tenths(35) THEN <<"High predicted grade">> ELSE <<>>)
    \o (IF class_avg # NaN /\ class_avg >= 35
        THEN <<"Historically high class average">> ELSE <<>>)
    \o (IF difficulty <= 20 THEN <<"Manageable difficulty level">> ELSE <<>>)
    \o (IF p.present /\ SubjectOf(course_code) \in Range(p.strong_subjects)
        THEN <<"Matches your strength">> ELSE <<>>)
    \o (IF p.present /\ Abs(difficulty - 10 * p.difficulty_preference) <= 5
        THEN <<"Good difficulty match for your preferences">> ELSE <<>>)

generate_reasons(p, course_code, pred_grade, difficulty, class_avg) ==
    (IF pred_grade >= Tenths(35) THEN <<"High predicted grade">> ELSE <<>>)
    \o (IF class_avg # NaN /\ class_avg >= 35
        THEN <<"Historically high class average">> ELSE <<>>)
    \o (IF p.present /\ SubjectOf(course_code) \in Range(p.strong_subjects)
        THEN <<"Matches your strength">> ELSE <<>>)
    \o (IF p.present /\ Abs(difficulty - 10 * p.difficulty_preference) <= 5
        THEN <<"Good difficulty match for your preferences">> ELSE <<>>)
    \o (IF difficulty <= 20 THEN <<"Manageable difficulty level">> ELSE <<>>)

generate_warnings(p, course_code, difficulty, pred_grade) ==
    (IF difficulty >= 32 THEN <<"High difficulty course">> ELSE <<>>)
    \o (IF pred_grade < Tenths(27)
        THEN <<"Below-average predicted performance">> ELSE <<>>)
    \o (IF p.present /\ p.current_gpa < 30 /\ difficulty > 30
        THEN <<"May be challenging given current GPA">> ELSE <<>>)

(***************************************************************************)
(* get_course_recommendations                                              *)
(***************************************************************************)
\* a faulty variant: the completed courses stay among the candidates
KeepCompleted(rows, p, exclude_completed) == rows

\* filtered_df[~filtered_df['Course'].isin(completed)]
ExcludeCompleted(rows, p, exclude_completed) ==
    IF exclude_completed /\ p.present
    THEN SelectSeq(rows, LAMBDA r : r.Course \notin Range(p.completed_courses))
    ELSE rows

\* filtered_df[filtered_df['Course'].str[:4].isin([s.upper() for s in subject_filter])]
FilterSubject(rows, subject_filter) ==
    IF subject_filter # <<>>
    THEN SelectSeq(rows, LAMBDA r :
             Slice(r.Course, SubjectLen) \in Range([i \in 1..Len(subject_filter) |->
                                                      Upper(subject_filter[i])]))
    ELSE rows

\* a faulty variant: a row without a credits value passes the filter
FilterCreditsKeepAbsent(rows, columns, min_credits) ==
    IF "Credits" \in columns
    THEN SelectSeq(rows, LAMBDA r : r.Credits = NaN \/ r.Credits >= min_credits)
    ELSE rows

\* filtered_df[filtered_df['Credits'] >= min_credits]: NaN >= n is False
FilterCredits(rows, columns, min_credits) ==
    IF "Credits" \in columns
    THEN SelectSeq(rows, LAMBDA r : r.Credits # NaN /\ r.Credits >= min_credits)
    ELSE rows

\* a faulty variant: the last row of every course code (keep='last')
KeepLastOfEach(rows) ==
    LET last == {i \in 1..Len(rows) :
                    \A j \in (i + 1)..Len(rows) : rows[j].Course # rows[i].Course}
        F[i \in 0..Len(rows)] ==
            IF i = 0 THEN <<>>
            ELSE IF i \in last THEN Append(F[i - 1], rows[i]) ELSE F[i - 1]
    IN F[Len(rows)]

\* filtered_df.drop_duplicates('Course'): the first row of every course code
DropDuplicates(rows) ==
    LET first == {i \in 1..Len(rows) : \A j \in 1..(i - 1) : rows[j].Course # rows[i].Course}
        F[i \in 0..Len(rows)] ==
            IF i = 0 THEN <<>>
            ELSE IF i \in first THEN Append(F[i - 1], rows[i]) ELSE F[i - 1]
    IN F[Len(rows)]

\* the rows the loop of get_course_recommendations iterates over
UniqueCourses(d, p, exclude_completed, min_credits, subject_filter) ==
    DropDuplicates(
        FilterCredits(
            FilterSubject(ExcludeCompleted(d.rows, p, exclude_completed), subject_filter),
            d.columns, min_credits))

\* score_recommendation, in units of 1/(10 * Scale)
score_recommendation(rec) ==
    rec.predicted_grade * rec.confidence
    - Abs(25 - rec.difficulty_score) * (Scale \div 10)

\* a faulty variant: an unstable sort that puts an entry before its equals
InsertBeforeEqual(sorted, rec) ==
    LET before == {i \in 1..Len(sorted) :
                      score_recommendation(sorted[i]) > score_recommendation(rec)}
        k == Cardinality(before)
    IN SubSeq(sorted, 1, k) \o <<rec>> \o SubSeq(sorted, k + 1, Len(sorted))

\* list.sort(key=score_recommendation, reverse=True): stable, so entries of
\* equal score keep the order they were appended in
InsertByScore(sorted, rec) ==
    LET before == {i \in 1..Len(sorted) :
                      score_recommendation(sorted[i]) >= score_recommendation(rec)}
        k == Cardinality(before)
    IN SubSeq(sorted, 1, k) \o <<rec>> \o SubSeq(sorted, k + 1, Len(sorted))

SortByScore(recs) ==
    LET F[i \in 0..Len(recs)] ==
            IF i = 0 THEN <<>> ELSE InsertByScore(F[i - 1], recs[i])
    IN F[Len(recs)]

\* recommendations[:num_courses], num_courses >= 0
FirstN(recs, num_courses) == SubSeq(recs, 1, Min2(num_courses, Len(recs)))

\* the CourseRecommendation built for one row of unique_courses
Recommendation(d, p, course_row, prediction, difficulty) ==
    LET class_avg == IF "Class Ave" \in d.columns THEN course_row.ClassAve ELSE 0
    IN [course_code |-> course_row.Course,
        predicted_grade |-> prediction[1],
        difficulty_score |-> difficulty,
        class_average |-> class_avg,
        credits |-> IF "Credits" \in d.columns THEN course_row.Credits ELSE DefaultCredits,
        reasons |-> generate_reasons(p, course_row.Course, prediction[1], difficulty, class_avg),
        warnings |-> generate_warnings(p, course_row.Course, difficulty, prediction[1]),
        confidence |-> prediction[2],
        term_offered |-> IF "Term Name" \in d.columns THEN course_row.TermName ELSE "Unknown"]

\* the copy's own predict_student_grade and calculate_difficulty_score
PredictOf(eng, d, p, course_code) ==
    IF eng = "root" THEN predict_student_grade(d, p, course_code)
    ELSE backend_predict_student_grade(d, p, course_code)

DifficultyOf(eng, d, course_code) ==
    IF eng = "root" THEN calculate_difficulty_score(d, course_code)
    ELSE backend_calculate_difficulty_score(d, course_code)

\* get_course_recommendations, the same text in both copies; an exception of
\* predict_student_grade or calculate_difficulty_score leaves the call
get_course_recommendations(eng, d, p, num_courses, exclude_completed, min_credits, subject_filter) ==
    IF ~d.loaded THEN Returns(<<>>)
    ELSE IF "Course" \notin d.columns THEN KeyError
    ELSE LET unique_courses ==
                 UniqueCourses(d, p, exclude_completed, min_credits, subject_filter)
             n == Len(unique_courses)
         IN IF \E i \in 1..n :
                   \/ PredictOf(eng, d, p, unique_courses[i].Course).raised
                   \/ DifficultyOf(eng, d, unique_courses[i].Course).raised
            THEN KeyError
            ELSE LET recommendations ==
                         [i \in 1..n |->
                             Recommendation(d, p, unique_courses[i],
                                 PredictOf(eng, d, p, unique_courses[i].Course).value,
                                 DifficultyOf(eng, d, unique_courses[i].Course).value)]
                 IN Returns(FirstN(SortByScore(recommendations), num_courses))

\* a faulty variant: drop_duplicates('Course', inplace=True) on self.df
DedupedInPlace(d, p, exclude_completed, min_credits, subject_filter) ==
    IF d.loaded /\ "Course" \in d.columns
    THEN [d EXCEPT !.rows = DropDuplicates(d.rows)]
    ELSE d

\* a faulty variant: the filters are applied to self.df itself
FilteredInPlace(d, p, exclude_completed, min_credits, subject_filter) ==
    IF d.loaded /\ "Course" \in d.columns
    THEN [d EXCEPT !.rows =
             FilterCredits(
                 FilterSubject(ExcludeCompleted(d.rows, p, exclude_completed),
                               subject_filter),
                 d.columns, min_credits)]
    ELSE d

\* filtered_df = self.df.copy(): the filters work on a copy, self.df stays
DatasetAfterRecommend(d, p, exclude_completed, min_credits, subject_filter) == d

(***************************************************************************)
(* Inputs of the model.                                                    *)
(***************************************************************************)
COMP250 == <<"C", "O", "M", "P", "2", "5", "0">>

MATH240 == <<"M", "A", "T", "H", "2", "4", "0">>

\* the course codes of dataset rows (normalized: upper case, stripped)
CourseCodes == {COMP250, MATH240}

\* the course codes callers ask about: as stored, in lower case, too short
RequestCodes == {COMP250, <<"c", "o", "m", "p", "2", "5", "0">>, MATH240, <<"P", "H", "Y">>}

\* the completed courses callers pass, before create_student_profile cleans them
CompletedInputs == {<<" ", "c", "o", "m", "p", "2", "5", "0">>, MATH240}

\* the 'Term Name' of the i-th row: every row of a dataset has its own
TermNames == <<"Fall 2019", "Winter 2020", "Summer 2020", "Fall 2020", "Winter 2021">>

\* the (current_gpa, difficulty_preference) callers pass
VERY_HARD == 4

ProfileInputs == {<<32, MODERATE>>, <<25, VERY_HARD>>}

MinCredits == {3}

SubjectFilters == {<<>>, <<<<"c", "o", "m", "p">>>>}

AllColumns == {"Course", "Class Ave", "Credits", "Term Name"}

ColumnSets == {AllColumns, {"Course", "Credits", "Term Name"}, {"Course", "Class Ave"}}

Cell(course, class_ave, credits) ==
    [Course |-> course, ClassAve |-> class_ave, Credits |-> credits]

\* the cells a row may hold under these columns (class averages in tenths):
\* absent columns hold none
Cells(columns) ==
    IF "Class Ave" \in columns /\ "Credits" \in columns
    THEN {Cell(COMP250, 35, 3), Cell(COMP250, 39, 0),
          Cell(MATH240, 39, NaN), Cell(MATH240, 35, 3)}
    ELSE IF "Class Ave" \in columns
    THEN {Cell(COMP250, 35, NaN), Cell(COMP250, 39, NaN), Cell(MATH240, NaN, NaN)}
    ELSE {Cell(COMP250, NaN, 3), Cell(MATH240, NaN, 3)}

Tables(columns) ==
    {[loaded |-> TRUE, columns |-> columns,
      rows |-> [i \in 1..Len(cells) |->
                  [Course |-> cells[i].Course, ClassAve |-> cells[i].ClassAve,
                   Credits |-> cells[i].Credits,
                   TermName |-> IF "Term Name" \in columns THEN TermNames[i] ELSE "Unknown"]]] :
        cells \in SeqsUpTo(Cells(columns), MaxRows)}

\* load_grade_data returned before cleaning (no course column was found):
\* self.df is the parsed table, which has no 'Course' column
RawTable == [loaded |-> TRUE, columns |-> {}, rows |-> <<>>]

\* the values of self.df after the constructor
DatasetStates == {NoData, RawTable} \cup UNION {Tables(c) : c \in ColumnSets}

(***************************************************************************)
(* The state machine: a caller (the menu loop of interactive_mode, a       *)
(* request handler) calls one method at a time and takes its result.       *)
(***************************************************************************)
Init ==
    /\ engine \in {"root", "backend"}
    /\ df \in DatasetStates
    /\ student_profile = NoProfile
    /\ ret = NoCall
    /\ previous = NoCall

Idle == ret.op = "none"

CallCreateStudentProfile ==
    /\ Idle
    /\ \E completed_courses \in SeqsUpTo(CompletedInputs, MaxCompleted), gp \in ProfileInputs :
         \E p \in create_student_profile(completed_courses, gp[1], gp[2]) :
            /\ student_profile' = p
            /\ ret' = [NoCall EXCEPT !.op = "create_student_profile"]
            /\ UNCHANGED <<engine, df, previous>>

CallPredictStudentGrade ==
    /\ Idle
    /\ \E course_code \in RequestCodes :
        LET r == PredictOf(engine, df, student_profile, course_code) IN
        /\ ret' = [NoCall EXCEPT !.op = "predict_student_grade",
                                 !.course_code = course_code,
                                 !.raised = r.raised,
                                 !.predicted_grade = IF r.raised THEN 0 ELSE r.value[1],
                                 !.confidence = IF r.raised THEN 0 ELSE r.value[2]]
        /\ UNCHANGED <<engine, df, student_profile, previous>>

CallCalculateDifficultyScore ==
    /\ Idle
    /\ \E course_code \in RequestCodes :
        LET r == DifficultyOf(engine, df, course_code) IN
        /\ ret' = [NoCall EXCEPT !.op = "calculate_difficulty_score",
                                 !.course_code = course_code,
                                 !.raised = r.raised,
                                 !.difficulty_score = r.value]
        /\ UNCHANGED <<engine, df, student_profile, previous>>

\* one call of get_course_recommendations: what it returns and what it leaves
Recommend(num_courses, exclude_completed, min_credits, subject_filter) ==
    LET r == get_course_recommendations(engine, df, student_profile, num_courses,
                                        exclude_completed, min_credits, subject_filter)
    IN /\ ret' = [NoCall EXCEPT !.op = "get_course_recommendations",
                                !.num_courses = num_courses,
                                !.exclude_completed = exclude_completed,
                                !.min_credits = min_credits,
                                !.subject_filter = subject_filter,
                                !.raised = r.raised,
                                !.recs = IF r.raised THEN <<>> ELSE r.value]
       /\ df' = DatasetAfterRecommend(df, student_profile, exclude_completed,
                                      min_credits, subject_filter)
       /\ UNCHANGED <<engine, student_profile>>

CallGetCourseRecommendations ==
    /\ Idle
    /\ \E num_courses \in 0..MaxCount, exclude_completed \in BOOLEAN,
          min_credits \in MinCredits, subject_filter \in SubjectFilters :
         Recommend(num_courses, exclude_completed, min_credits, subject_filter)
    /\ UNCHANGED previous

\* the caller calls get_course_recommendations again with the same arguments,
\* keeping the list the first call returned
CallGetCourseRecommendationsAgain ==
    /\ ret.op = "get_course_recommendations"
    /\ previous = NoCall
    /\ Recommend(ret.num_courses, ret.exclude_completed, ret.min_credits, ret.subject_filter)
    /\ previous' = ret

\* the caller is done with the result
Continue ==
    /\ ~Idle
    /\ ret' = NoCall
    /\ previous' = NoCall
    /\ UNCHANGED <<engine, df, student_profile>>

Next ==
    \/ CallCreateStudentProfile
    \/ CallPredictStudentGrade
    \/ CallCalculateDifficultyScore
    \/ CallGetCourseRecommendations
    \/ CallGetCourseRecommendationsAgain
    \/ Continue

Spec == Init /\ [][Next]_vars

(***************************************************************************)
(* The same machine over complete tables of up to MaxRankRows rows whose   *)
(* courses tie in score: the ranking of get_course_recommendations.        *)
(***************************************************************************)
RankCells ==
    {Cell(COMP250, 35, 0), Cell(MATH240, 35, 3), Cell(COMP250, 35, 3)}

RankTables ==
    {[loaded |-> TRUE, columns |-> AllColumns,
      rows |-> [i \in 1..Len(cells) |->
                  [Course |-> cells[i].Course, ClassAve |-> cells[i].ClassAve,
                   Credits |-> cells[i].Credits, TermName |-> TermNames[i]]]] :
        cells \in SeqsUpTo(RankCells, MaxRankRows)}

InitRank ==
    /\ engine \in {"root", "backend"}
    /\ df \in RankTables
    /\ student_profile = NoProfile
    /\ ret = NoCall
    /\ previous = NoCall

SpecRank == InitRank /\ [][Next]_vars

(***************************************************************************)
(* load_grade_data and _manual_csv_parse.  Text is a sequence of           *)
(* characters; a parsed frame has headers and rows of cells, a cell being  *)
(* a text or Missing (the NaN of an empty cell read by pandas).            *)
(***************************************************************************)
LowerTable == [i \in 1..Len(UpperLetters) |-> LowerLetters[i]]

UpperIndex == [c \in Range(UpperLetters) |-> CHOOSE i \in 1..Len(UpperLetters) : UpperLetters[i] = c]

LowerChar(c) == IF c \in DOMAIN UpperIndex THEN LowerTable[UpperIndex[c]] ELSE c

\* s.lower()
Lower(s) == [i \in 1..Len(s) |-> LowerChar(s[i])]

\* sub in s
Contains(s, sub) ==
    \E i \in 0..(Len(s) - Len(sub)) : SubSeq(s, i + 1, i + Len(sub)) = sub

\* a cell pandas read as NaN
Missing == <<"NaN">>

\* no frame: the None of a failed parse
NoFrame == [parsed |-> FALSE, headers |-> <<>>, rows |-> <<>>]

Frame(headers, rows) == [parsed |-> TRUE, headers |-> headers, rows |-> rows]

(***************************************************************************)
(* _manual_csv_parse                                                       *)
(***************************************************************************)
Quote == "\""

Comma == ","

RECURSIVE LStripQuotes(_)
LStripQuotes(s) == IF s # <<>> /\ Head(s) = Quote THEN LStripQuotes(Tail(s)) ELSE s

RECURSIVE RStripQuotes(_)
RStripQuotes(s) ==
    IF s # <<>> /\ s[Len(s)] = Quote THEN RStripQuotes(SubSeq(s, 1, Len(s) - 1)) ELSE s

\* current_field.strip().strip('"')
CloseField(current_field) == RStripQuotes(LStripQuotes(Strip(current_field)))

\* a faulty variant: every comma splits, quoted or not
RECURSIVE ScanEveryComma(_, _, _, _)
ScanEveryComma(line, fields, current_field, in_quotes) ==
    IF line = <<>> THEN Append(fields, CloseField(current_field))
    ELSE IF Head(line) = Quote
         THEN ScanEveryComma(Tail(line), fields, current_field, ~in_quotes)
    ELSE IF Head(line) = Comma
         THEN ScanEveryComma(Tail(line), Append(fields, CloseField(current_field)), <<>>, in_quotes)
    ELSE ScanEveryComma(Tail(line), fields, Append(current_field, Head(line)), in_quotes)

\* the loop over the characters of a line and the last append
RECURSIVE Scan(_, _, _, _)
Scan(line, fields, current_field, in_quotes) ==
    IF line = <<>> THEN Append(fields, CloseField(current_field))
    ELSE IF Head(line) = Quote
         THEN Scan(Tail(line), fields, current_field, ~in_quotes)
    ELSE IF Head(line) = Comma /\ ~in_quotes
         THEN Scan(Tail(line), Append(fields, CloseField(current_field)), <<>>, in_quotes)
    ELSE Scan(Tail(line), fields, Append(current_field, Head(line)), in_quotes)

\* the fields of a stripped line
Tokenize(line) == Scan(line, <<>>, <<>>, FALSE)

\* a faulty variant: short lines are padded, long lines are kept whole
PadOnly(fields, n) ==
    [j \in 1..Max2(n, Len(fields)) |-> IF j <= Len(fields) THEN fields[j] ELSE <<>>]

\* while len(fields) < len(headers): fields.append(''); fields[:len(headers)]
PadOrTruncate(fields, n) ==
    [j \in 1..n |-> IF j <= Len(fields) THEN fields[j] ELSE <<>>]

\* root copy: if line_num > 1000 and len(rows) < 10: break
ManualLineCap == 1000

ManualMinRows == 10

\* one round of the loop over the lines of the file; acc holds headers (a
\* one-element sequence once found), rows and whether the loop was left
ReadLine(eng, text, line_num, acc) ==
    IF acc.stopped THEN acc
    ELSE LET line == Strip(text[line_num]) IN
         IF line = <<>> THEN acc
         ELSE LET fields == Tokenize(line)
                  read == IF acc.headers = <<>>
                          THEN [acc EXCEPT !.headers = <<fields>>]
                          ELSE [acc EXCEPT !.rows =
                                   Append(@, PadOrTruncate(fields, Len(acc.headers[1])))]
                  stop == eng = "root" /\ line_num > ManualLineCap
                                       /\ Len(read.rows) < ManualMinRows
              IN [read EXCEPT !.stopped = stop]

\* the loop over the lines first..last, in order (the rounds of the first
\* half, then those of the second)
RECURSIVE ReadLines(_, _, _, _, _)
ReadLines(eng, text, first, last, acc) ==
    IF first > last THEN acc
    ELSE IF first = last THEN ReadLine(eng, text, first, acc)
    ELSE LET middle == (first + last) \div 2
             half == ReadLines(eng, text, first, middle, acc)
         IN IF half.stopped THEN half
            ELSE ReadLines(eng, text, middle + 1, last, half)

\* _manual_csv_parse: a frame if headers and rows, else None
manual_csv_parse(eng, text) ==
    LET acc == ReadLines(eng, text, 1, Len(text),
                         [headers |-> <<>>, rows |-> <<>>, stopped |-> FALSE])
    IN IF acc.headers # <<>> /\ acc.headers[1] # <<>> /\ acc.rows # <<>>
       THEN Frame(acc.headers[1], acc.rows)
       ELSE NoFrame

(***************************************************************************)
(* The cleaning of load_grade_data.                                        *)
(***************************************************************************)
\* possible_course_cols
possible_course_cols ==
    <<<<"C", "o", "u", "r", "s", "e">>,
      <<"c", "o", "u", "r", "s", "e">>,
      <<"C", "l", "a", "s", "s">>,
      <<"c", "l", "a", "s", "s">>,
      <<"C", "o", "u", "r", "s", "e", " ", "C", "o", "d", "e">>,
      <<"c", "o", "u", "r", "s", "e", "_", "c", "o", "d", "e">>>>

\* the position of the first column with this name, 0 if there is none
ColumnIndex(headers, name) ==
    IF name \in Range(headers)
    THEN CHOOSE i \in 1..Len(headers) :
             headers[i] = name /\ \A j \in 1..(i - 1) : headers[j] # name
    ELSE 0

\* the first candidate, in the order of the list, that is a column
RECURSIVE FirstCandidate(_, _)
FirstCandidate(headers, k) ==
    IF k > Len(possible_course_cols) THEN 0
    ELSE IF possible_course_cols[k] \in Range(headers)
         THEN ColumnIndex(headers, possible_course_cols[k])
    ELSE FirstCandidate(headers, k + 1)

\* course_column as a position in the headers, 0 for None
CourseColumn(headers) == FirstCandidate(headers, 1)

\* [col for col in columns if 'ave' in col.lower() or 'grade' in col.lower()][0]
GradeColumn(headers) ==
    LET hits == {i \in 1..Len(headers) :
                    \/ Contains(Lower(headers[i]), <<"a", "v", "e">>)
                    \/ Contains(Lower(headers[i]), <<"g", "r", "a", "d", "e">>)}
    IN IF hits = {} THEN 0 ELSE CHOOSE i \in hits : \A j \in hits : i <= j

\* [col for col in columns if 'credit' in col.lower()][0]
CreditColumn(headers) ==
    LET hits == {i \in 1..Len(headers) : Contains(Lower(headers[i]), <<"c", "r", "e", "d", "i", "t">>)}
    IN IF hits = {} THEN 0 ELSE CHOOSE i \in hits : \A j \in hits : i <= j

Digits == <<"0", "1", "2", "3", "4", "5", "6", "7", "8", "9">>

DigitValue == [c \in Range(Digits) |-> (CHOOSE i \in 1..Len(Digits) : Digits[i] = c) - 1]

\* pd.to_numeric(cell, errors='coerce') in tenths, for the numerals "d" and
\* "d.d"; any other text and a missing cell give NaN
ToNumeric(cell) ==
    IF cell = Missing THEN NaN
    ELSE LET t == Strip(cell) IN
         IF Len(t) = 1 /\ t[1] \in DOMAIN DigitValue THEN 10 * DigitValue[t[1]]
         ELSE IF Len(t) = 3 /\ t[1] \in DOMAIN DigitValue /\ t[2] = "."
                            /\ t[3] \in DOMAIN DigitValue
              THEN 10 * DigitValue[t[1]] + DigitValue[t[3]]
         ELSE NaN

\* the credits of the model are whole numbers
ToCredits(cell) == IF ToNumeric(cell) = NaN THEN NaN ELSE ToNumeric(cell) \div 10

\* .astype(str).str.upper().str.strip()
NormalizeCode(cell) == Strip(Upper(cell))

\* a faulty variant: only the reference-error token is looked for
IsRefError(course) == Contains(Upper(course), <<"#", "R", "E", "F", "!">>)

\* str.contains('#REF!|NaN|nan', case=False)
IsInvalidCode(course) ==
    \/ Contains(Upper(course), <<"#", "R", "E", "F", "!">>)
    \/ Contains(Lower(course), <<"n", "a", "n">>)

TermColumn == <<"T", "e", "r", "m", " ", "N", "a", "m", "e">>

\* the columns of the cleaned frame, by the names the advisor looks up
CleanColumns(headers) ==
    {"Course"}
    \cup (IF GradeColumn(headers) # 0 THEN {"Class Ave"} ELSE {})
    \cup (IF CreditColumn(headers) # 0 THEN {"Credits"} ELSE {})
    \cup (IF TermColumn \in Range(headers) THEN {"Term Name"} ELSE {})

\* one row of the cleaned frame
CleanRow(headers, cells) ==
    [Course |-> NormalizeCode(cells[CourseColumn(headers)]),
     ClassAve |-> IF GradeColumn(headers) # 0
                  THEN ToNumeric(cells[GradeColumn(headers)]) ELSE NaN,
     Credits |-> IF CreditColumn(headers) # 0
                 THEN ToCredits(cells[CreditColumn(headers)]) ELSE NaN,
     TermName |-> IF TermColumn \in Range(headers)
                  THEN cells[ColumnIndex(headers, TermColumn)] ELSE "Unknown"]

\* dropna(subset=[course_column])
DropNa(headers, rows) ==
    SelectSeq(rows, LAMBDA cells : cells[CourseColumn(headers)] # Missing)

\* self.df after an early return: the frame as parsed.  Without a 'Course'
\* column it is RawTable; with zero rows it has the columns of its headers
Uncleaned(frame) ==
    IF <<"C", "o", "u", "r", "s", "e">> \in Range(frame.headers) /\ frame.rows = <<>>
    THEN [loaded |-> TRUE,
          columns |-> {"Course"}
              \cup (IF <<"C", "l", "a", "s", "s", " ", "A", "v", "e">> \in Range(frame.headers)
                    THEN {"Class Ave"} ELSE {})
              \cup (IF <<"C", "r", "e", "d", "i", "t", "s">> \in Range(frame.headers)
                    THEN {"Credits"} ELSE {})
              \cup (IF TermColumn \in Range(frame.headers) THEN {"Term Name"} ELSE {}),
          rows |-> <<>>]
    ELSE RawTable

\* what load_grade_data leaves in self.df when it returns early
LeftOnFailure(frame) == IF frame.parsed THEN Uncleaned(frame) ELSE NoData

\* load_grade_data from the test of the parsed frame to its end: self.df and
\* the message it logs
clean_grade_data(frame) ==
    IF ~frame.parsed \/ frame.rows = <<>>
    THEN [df |-> LeftOnFailure(frame), message |-> "could not parse"]
    ELSE IF CourseColumn(frame.headers) = 0
    THEN [df |-> LeftOnFailure(frame), message |-> "no course column"]
    ELSE LET kept == DropNa(frame.headers, frame.rows)
             rows == [i \in 1..Len(kept) |-> CleanRow(frame.headers, kept[i])]
         IN [df |-> [loaded |-> TRUE,
                     columns |-> CleanColumns(frame.headers),
                     rows |-> SelectSeq(rows, LAMBDA r : ~IsInvalidCode(r.Course))],
             message |-> "cleaned"]

(***************************************************************************)
(* load_grade_data as the constructor runs it.  ret is the frame of the    *)
(* call: where it is, the strategies it tried, what it parsed (self.df     *)
(* before the cleaning).  df is self.df as the constructor leaves it.  The *)
(* file is outside the program: pd.read_csv either raises or returns a     *)
(* frame, and the manual parser reads a text.                              *)
(***************************************************************************)
\* parsing_strategies
NumStrategies == 5

\* pd.read_csv raised
Raised == NoFrame

HeaderLists ==
    {<<<<"C", "o", "u", "r", "s", "e">>, <<"C", "l", "a", "s", "s", " ", "A", "v", "e">>, <<"C", "r", "e", "d", "i", "t", "s">>>>,
     <<<<"c", "o", "u", "r", "s", "e">>, <<"G", "r", "a", "d", "e">>>>,
     <<<<"C", "O", "U", "R", "S", "E">>, <<"C", "l", "a", "s", "s", " ", "A", "v", "e">>>>,
     <<<<"C", "l", "a", "s", "s">>>>,
     <<<<"c", "o", "u", "r", "s", "e", " ", "c", "o", "d", "e">>, <<"C", "r", "e", "d", "i", "t", "s">>>>,
     <<<<"C", "o", "d", "e">>, <<"G", "r", "a", "d", "e">>>>}

\* rows as pandas may read them: an empty cell is Missing
RowPool ==
    {<<<<"c", "o", "m", "p", "2", "5", "0">>, <<"3", ".", "5">>, <<"3">>>>,
     <<<<" ", "M", "a", "t", "h", "2", "4", "0", " ">>, <<"A">>, <<"3">>>>,
     <<<<" ">>, <<"3", ".", "5">>, Missing>>,
     <<Missing, <<"3", ".", "5">>, <<"3">>>>,
     <<<<"#", "R", "E", "F", "!">>, <<"3", ".", "5">>, <<"3">>>>,
     <<<<"F", "I", "N", "A", "N", "C", "E">>, <<"3", ".", "9">>, <<"0">>>>}

ParsedFrames ==
    {Frame(headers, [i \in 1..Len(rows) |-> SubSeq(rows[i], 1, Len(headers))]) :
        headers \in HeaderLists, rows \in SeqsUpTo(RowPool, MaxFrameRows)}

\* lines of a file only the manual parser can read
ManualLines ==
    {<<"C", "o", "u", "r", "s", "e", ",", "A", "v", "e">>,
     <<"c", "o", "m", "p", "2", "5", "0", ",", "3", ".", "5">>,
     <<" ", "m", "a", "t", "h", "2", "4", "0", " ">>,
     <<"\"", "a", ",", "b", "\"", ",", "3", ".", "5", ",", "x">>,
     <<",", "3", ".", "5">>,
     <<" ">>,
     <<"\"", "x", ",", "1">>,
     <<"#", "R", "E", "F", "!", ",", "2", ".", "0">>}

\* a file whose second and third records come after ManualLineCap blank lines
PaddedText ==
    [i \in 1..(ManualLineCap + 3) |->
        IF i = 1 THEN <<"C", "o", "u", "r", "s", "e", ",", "A", "v", "e">>
        ELSE IF i = 2 THEN <<"c", "o", "m", "p", "2", "5", "0", ",", "3", ".", "5">>
        ELSE IF i = ManualLineCap + 2 THEN <<"m", "a", "t", "h", "2", "4", "0", ",", "3", ".", "0">>
        ELSE IF i = ManualLineCap + 3 THEN <<"p", "h", "y", "s", "1", "0", "1", ",", "2", ".", "7">>
        ELSE <<>>]

Texts == SeqsUpTo(ManualLines, MaxLines) \cup {PaddedText}

LoadStart ==
    [op |-> "load_grade_data", pc |-> "exists", strategy |-> 1, attempts |-> <<>>,
     raised |-> {}, accepted |-> 0, manual |-> FALSE, text |-> <<>>,
     frame |-> NoFrame, message |-> "none"]

InitLoad ==
    /\ engine \in {"root", "backend"}
    /\ df = NoData
    /\ student_profile = NoProfile
    /\ ret = LoadStart
    /\ previous = NoCall

\* if os.path.exists(csv_file)
CheckExists ==
    /\ ret.pc = "exists"
    /\ \E exists \in BOOLEAN :
          ret' = IF exists THEN [ret EXCEPT !.pc = "strategies"]
                 ELSE [ret EXCEPT !.pc = "done", !.message = "not found"]
    /\ UNCHANGED <<engine, df, student_profile, previous>>

\* a faulty variant: the loop goes on after a strategy worked (no break)
strategy_step_no_break(load, outcome) ==
    LET tried == [load EXCEPT !.attempts = Append(@, load.strategy),
                              !.raised = IF outcome.parsed THEN @ ELSE @ \cup {load.strategy},
                              !.accepted = IF outcome.parsed THEN load.strategy ELSE @,
                              !.frame = IF outcome.parsed THEN outcome ELSE @]
    IN IF load.strategy < NumStrategies
       THEN [tried EXCEPT !.strategy = @ + 1]
       ELSE [tried EXCEPT !.pc = "manual"]

\* one round of the loop over parsing_strategies: break when read_csv
\* returned, continue when it raised, the else branch after the last one
strategy_step(load, outcome) ==
    LET tried == [load EXCEPT !.attempts = Append(@, load.strategy)] IN
    IF outcome.parsed
    THEN [tried EXCEPT !.accepted = load.strategy, !.frame = outcome, !.pc = "clean"]
    ELSE IF load.strategy < NumStrategies
    THEN [tried EXCEPT !.raised = @ \cup {load.strategy}, !.strategy = @ + 1]
    ELSE [tried EXCEPT !.raised = @ \cup {load.strategy}, !.pc = "manual"]

TryStrategy ==
    /\ ret.pc = "strategies"
    /\ \E outcome \in {Raised} \cup ParsedFrames : ret' = strategy_step(ret, outcome)
    /\ UNCHANGED <<engine, df, student_profile, previous>>

\* self.df = self._manual_csv_parse(csv_file)
ManualParse ==
    /\ ret.pc = "manual"
    /\ \E text \in Texts :
          ret' = [ret EXCEPT !.manual = TRUE, !.text = text,
                             !.frame = manual_csv_parse(engine, text), !.pc = "clean"]
    /\ UNCHANGED <<engine, df, student_profile, previous>>

\* the rest of load_grade_data
Clean ==
    /\ ret.pc = "clean"
    /\ LET result == clean_grade_data(ret.frame) IN
          /\ df' = result.df
          /\ ret' = [ret EXCEPT !.pc = "done", !.message = result.message]
    /\ UNCHANGED <<engine, student_profile, previous>>

NextLoad ==
    \/ CheckExists
    \/ TryStrategy
    \/ ManualParse
    \/ Clean

SpecLoad == InitLoad /\ [][NextLoad]_vars

(***************************************************************************)
(* The /predict handler of backend/main.py.  The endpoint is a plain def,  *)
(* so the server runs every request on a thread of its pool: the handlers  *)
(* of several requests interleave statement by statement over the one      *)
(* module-level advisor.  ret holds one frame per request.                 *)
(***************************************************************************)
Requests == 1..MaxRequests

\* request.student_gpa, in tenths
GpaInputs == {20, 40}

Waiting ==
    [pc |-> "waiting", course_code |-> <<>>, student_gpa |-> 0,
     predicted_grade |-> 0, confidence |-> 0, raised |-> FALSE]

\* advisor.student_profile when the requests arrive: {} or a created profile
ProfilesAtStart ==
    {NoProfile} \cup create_student_profile(<<MATH240>>, 32, MODERATE)

InitPredict ==
    /\ engine = "backend"
    /\ df \in Tables({"Course", "Class Ave"})
    /\ student_profile \in ProfilesAtStart
    /\ ret = [r \in Requests |-> Waiting]
    /\ previous = NoCall

\* a request arrives with its body
Receive(r) ==
    /\ ret[r].pc = "waiting"
    /\ \E course_code \in CourseCodes, student_gpa \in GpaInputs :
          ret' = [ret EXCEPT ![r] = [@ EXCEPT !.pc = "check",
                                              !.course_code = course_code,
                                              !.student_gpa = student_gpa]]
    /\ UNCHANGED <<engine, df, student_profile, previous>>

\* if not advisor.student_profile:
CheckProfile(r) ==
    /\ ret[r].pc = "check"
    /\ ret' = [ret EXCEPT ![r].pc = IF student_profile.present THEN "set_gpa" ELSE "reset"]
    /\ UNCHANGED <<engine, df, student_profile, previous>>

\* advisor.student_profile = {}
ResetProfile(r) ==
    /\ ret[r].pc = "reset"
    /\ student_profile' = NoProfile
    /\ ret' = [ret EXCEPT ![r].pc = "set_gpa"]
    /\ UNCHANGED <<engine, df, previous>>

\* advisor.student_profile['current_gpa'] = request.student_gpa
SetGpa(r) ==
    /\ ret[r].pc = "set_gpa"
    /\ student_profile' = [student_profile EXCEPT !.present = TRUE,
                                                  !.current_gpa = ret[r].student_gpa]
    /\ ret' = [ret EXCEPT ![r].pc = "setdefault"]
    /\ UNCHANGED <<engine, df, previous>>

\* advisor.student_profile.setdefault('difficulty_preference', 2): a profile
\* without the key already reads as preference 2 (NoProfile)
SetDefaultPreference(r) ==
    /\ ret[r].pc = "setdefault"
    /\ ret' = [ret EXCEPT ![r].pc = "predict"]
    /\ UNCHANGED <<engine, df, student_profile, previous>>

\* grade, conf = advisor.predict_student_grade(request.course_code), and the
\* response built from them
Respond(r) ==
    /\ ret[r].pc = "predict"
    /\ LET result == PredictOf(engine, df, student_profile, ret[r].course_code) IN
          ret' = [ret EXCEPT ![r] = [@ EXCEPT !.pc = "done",
                                              !.raised = result.raised,
                                              !.predicted_grade = result.value[1],
                                              !.confidence = result.value[2]]]
    /\ UNCHANGED <<engine, df, student_profile, previous>>

NextPredict ==
    \E r \in Requests :
        \/ Receive(r)
        \/ CheckProfile(r)
        \/ ResetProfile(r)
        \/ SetGpa(r)
        \/ SetDefaultPreference(r)
        \/ Respond(r)

SpecPredict == InitPredict /\ [][NextPredict]_vars

(***************************************************************************)
(* The machine of the advisor methods over complete tables whose class     *)
(* averages lie in all five difficulty bands and on their thresholds.      *)
(***************************************************************************)
BandCells ==
    {Cell(COMP250, 26, 3), Cell(COMP250, 37, 3), Cell(MATH240, 27, 3), Cell(MATH240, 33, 3)}

BandTables ==
    {[loaded |-> TRUE, columns |-> AllColumns,
      rows |-> [i \in 1..Len(cells) |->
                  [Course |-> cells[i].Course, ClassAve |-> cells[i].ClassAve,
                   Credits |-> cells[i].Credits, TermName |-> TermNames[i]]]] :
        cells \in SeqsUpTo(BandCells, MaxRows)}

InitBands ==
    /\ engine \in {"root", "backend"}
    /\ df \in BandTables
    /\ student_profile = NoProfile
    /\ ret = NoCall
    /\ previous = NoCall

SpecBands == InitBands /\ [][Next]_vars

(***************************************************************************)
(* The machine of the advisor methods, for either copy, over no dataset    *)
(* and over complete tables in which a class average or enough credits may *)
(* be missing.                                                             *)
(***************************************************************************)
CopyCells ==
    {Cell(COMP250, 35, 3), Cell(MATH240, NaN, 3), Cell(MATH240, 39, 0)}

CopyTables ==
    {[loaded |-> TRUE, columns |-> AllColumns,
      rows |-> [i \in 1..Len(cells) |->
                  [Course |-> cells[i].Course, ClassAve |-> cells[i].ClassAve,
                   Credits |-> cells[i].Credits, TermName |-> TermNames[i]]]] :
        cells \in SeqsUpTo(CopyCells, MaxRows)}

InitCopies ==
    /\ engine \in {"root", "backend"}
    /\ df \in {NoData} \cup CopyTables
    /\ student_profile = NoProfile
    /\ ret = NoCall
    /\ previous = NoCall

SpecCopies == InitCopies /\ [][Next]_vars

(***************************************************************************)
(* A caller that builds the advisor and creates the student profile once,  *)
(* as quick_test does, from a list of up to MaxTaken completed courses.    *)
(***************************************************************************)
COMP251 == <<"C", "O", "M", "P", "2", "5", "1">>

\* completed courses of four subjects, and one code shorter than a subject
TakenInputs ==
    {COMP250, COMP251, MATH240,
     <<"P", "H", "Y", "S", "1", "0", "1">>, <<"B", "I", "O", "L", "1", "1", "1">>,
     <<"C", "S">>}

InitProfile ==
    /\ engine \in {"root", "backend"}
    /\ df = NoData
    /\ student_profile = NoProfile
    /\ ret = NoCall
    /\ previous = NoCall

\* advisor.create_student_profile(...), called once
CreateProfileOnce ==
    /\ Idle
    /\ ~student_profile.present
    /\ \E completed_courses \in SeqsUpTo(TakenInputs, MaxTaken) :
         \E p \in create_student_profile(completed_courses, 32, MODERATE) :
            /\ student_profile' = p
            /\ ret' = [NoCall EXCEPT !.op = "create_student_profile"]
            /\ UNCHANGED <<engine, df, previous>>

NextProfile ==
    \/ CreateProfileOnce
    \/ Continue

SpecProfile == InitProfile /\ [][NextProfile]_vars

(***************************************************************************)
(* Vocabulary of the properties.                                           *)
(***************************************************************************)
Predicted == ret.op = "predict_student_grade"

Scored == ret.op = "calculate_difficulty_score"

Recommended == ret.op = "get_course_recommendations"

\* the dataset is absent or was cleaned by load_grade_data
Cleaned == ~df.loaded \/ "Course" \in df.columns

\* no row has the upper-cased code, or every row that has it lacks an average
NoAverageFor(course_code) ==
    \A i \in 1..Len(df.rows) :
        df.rows[i].Course = Upper(course_code) =>
            ("Class Ave" \notin df.columns \/ df.rows[i].ClassAve = NaN)

RecCodes == {ret.recs[i].course_code : i \in 1..Len(ret.recs)}

\* the call returned every candidate: the cut to num_courses removed nothing
Untruncated == Recommended /\ ~ret.raised /\ Len(ret.recs) < ret.num_courses

\* the row passes the completed-courses filter and the subject filter of the call
PassesOtherFilters(r) ==
    /\ (ret.exclude_completed /\ student_profile.present)
          => r.Course \notin Range(student_profile.completed_courses)
    /\ ret.subject_filter # <<>>
          => \E k \in 1..Len(ret.subject_filter) :
                Slice(r.Course, 4) = Upper(ret.subject_filter[k])

\* the credits cell of the row is present and at least min_credits
HasEnoughCredits(r) == r.Credits # NaN /\ r.Credits >= ret.min_credits

\* the rows that passed the three filters of the call
PassedRows ==
    {j \in 1..Len(df.rows) :
        /\ PassesOtherFilters(df.rows[j])
        /\ "Credits" \in df.columns => HasEnoughCredits(df.rows[j])}

\* the first of them with this code
FirstPassedRow(code) ==
    CHOOSE j \in PassedRows :
        /\ df.rows[j].Course = code
        /\ \A k \in PassedRows : df.rows[k].Course = code => j <= k

\* the first row of the dataset with this code
FirstOccurrence(code) ==
    CHOOSE j \in 1..Len(df.rows) :
        /\ df.rows[j].Course = code
        /\ \A k \in 1..Len(df.rows) : df.rows[k].Course = code => j <= k

\* predicted_grade * confidence - 0.1 * |2.5 - difficulty_score|, in units of
\* 1/(10 * Scale)
Composite(rec) ==
    rec.predicted_grade * rec.confidence - Abs(25 - rec.difficulty_score) * (Scale \div 10)

(***************************************************************************)
(* C1.  For every dataset state the constructor can leave, every course    *)
(* code and every profile (or none), predict_student_grade returns a pair  *)
(* with 0.0 <= predicted_grade <= 4.0 and 0.0 <= confidence <= 1.0.        *)
(***************************************************************************)
C1_PredictionInRange ==
    Predicted =>
        /\ ~ret.raised
        /\ 0 <= ret.predicted_grade /\ ret.predicted_grade <= 4 * Scale
        /\ 0 <= ret.confidence /\ ret.confidence <= 10

(***************************************************************************)
(* C2.  predict_student_grade returns exactly (0.0, 0.0) whenever the      *)
(* (cleaned) dataset has no row with the upper-cased code, or every such   *)
(* row has an absent class average, with or without a profile.             *)
(***************************************************************************)
C2_NoDataSentinel ==
    (Predicted /\ Cleaned /\ NoAverageFor(ret.course_code)) =>
        /\ ~ret.raised
        /\ ret.predicted_grade = 0
        /\ ret.confidence = 0

(***************************************************************************)
(* C3.  Two COMP250 rows of class average 3.5 and 3.9, a profile of GPA    *)
(* 3.2 with no strong subjects and preference MODERATE:                    *)
(* predict_student_grade("COMP250") returns predicted grade 3.85.          *)
(* The claim adds: and confidence 0.5, no difficulty bonus.  The code      *)
(* returns confidence 0.7: the difficulty of a 3.7 average is 1.5, within  *)
(* 1 of MODERATE = 2, and the bonus of 0.2 is added.                       *)
(***************************************************************************)
C3_Scenario ==
    /\ Predicted
    /\ ret.course_code = COMP250
    /\ df.loaded /\ {"Course", "Class Ave"} \subseteq df.columns
    /\ Len(df.rows) = 2
    /\ df.rows[1].Course = COMP250 /\ df.rows[1].ClassAve = 35
    /\ df.rows[2].Course = COMP250 /\ df.rows[2].ClassAve = 39
    /\ student_profile.present
    /\ student_profile.current_gpa = 32
    /\ student_profile.strong_subjects = <<>>
    /\ student_profile.difficulty_preference = MODERATE

\* the claim as written: 3.85 and 0.5
C3_AsClaimed ==
    C3_Scenario =>
        ~ret.raised /\ 100 * ret.predicted_grade = 385 * Scale /\ ret.confidence = 5

\* the claim as amended: 3.85 and 0.7
C3_Amended ==
    C3_Scenario =>
        ~ret.raised /\ 100 * ret.predicted_grade = 385 * Scale /\ ret.confidence = 7

C3_Witness == C3_Scenario /\ ~ret.raised /\ ret.confidence = 7

(***************************************************************************)
(* C4.  calculate_difficulty_score returns one of 1.5, 2.0, 2.5, 3.0, 3.5, *)
(* and 2.5 when there is no dataset, no matching row, or every matching    *)
(* row has an absent class average.                                        *)
(***************************************************************************)
C4_DifficultyBands ==
    Scored =>
        /\ ~ret.raised
        /\ ret.difficulty_score \in {15, 20, 25, 30, 35}
        /\ (Cleaned /\ NoAverageFor(ret.course_code)) => ret.difficulty_score = 25

(***************************************************************************)
(* C5.  With exclude_completed=True and a profile built by                 *)
(* create_student_profile, get_course_recommendations never returns a      *)
(* recommendation whose course_code is among the profile's                 *)
(* completed_courses, whatever the other arguments.                        *)
(***************************************************************************)
C5_CompletedExcluded ==
    (Recommended /\ ret.exclude_completed /\ student_profile.present) =>
        \A i \in 1..Len(ret.recs) :
            ret.recs[i].course_code \notin Range(student_profile.completed_courses)

\* a completed course of the dataset is left out and another one is recommended
C5_Witness ==
    /\ Recommended /\ ret.exclude_completed /\ student_profile.present /\ ~ret.raised
    /\ \E i \in 1..Len(df.rows) :
          /\ df.rows[i].Course \in Range(student_profile.completed_courses)
          /\ ret.subject_filter = <<>>
          /\ "Credits" \in df.columns => HasEnoughCredits(df.rows[i])
    /\ ret.recs # <<>>

(***************************************************************************)
(* C6.  For every num_courses >= 0, every dataset and every filter         *)
(* combination, get_course_recommendations returns a list of at most       *)
(* num_courses entries.                                                    *)
(***************************************************************************)
C6_AtMostCount ==
    Recommended => ~ret.raised /\ Len(ret.recs) <= ret.num_courses

(***************************************************************************)
(* C7.  The credits filter.  As claimed: it removes the rows whose credits *)
(* are below min_credits and keeps the rows whose credits are absent.      *)
(* The code keeps a row only if its credits cell is present and at least   *)
(* min_credits (NaN >= n is False), unless the dataset has no Credits      *)
(* column at all, in which case no row is removed.                         *)
(***************************************************************************)
\* as claimed: the recommended courses are those of the rows that pass the
\* other filters and whose credits are absent or at least min_credits
C7_AsClaimed ==
    Untruncated =>
        RecCodes = {df.rows[i].Course : i \in
                       {j \in 1..Len(df.rows) :
                           /\ PassesOtherFilters(df.rows[j])
                           /\ df.rows[j].Credits = NaN \/ df.rows[j].Credits >= ret.min_credits}}

\* as amended
C7_Amended ==
    /\ Untruncated =>
          RecCodes = {df.rows[i].Course : i \in
                         {j \in 1..Len(df.rows) :
                             /\ PassesOtherFilters(df.rows[j])
                             /\ "Credits" \in df.columns => HasEnoughCredits(df.rows[j])}}
    /\ (Recommended /\ "Credits" \in df.columns) =>
          \A i \in 1..Len(ret.recs) :
              ret.recs[i].credits # NaN /\ ret.recs[i].credits >= ret.min_credits

\* a row with absent credits, in a dataset with a Credits column, passes the
\* other filters and its course is not recommended
C7_Witness ==
    /\ Untruncated
    /\ "Credits" \in df.columns
    /\ \E i \in 1..Len(df.rows) :
          /\ df.rows[i].Credits = NaN
          /\ PassesOtherFilters(df.rows[i])
          /\ df.rows[i].Course \notin RecCodes

(***************************************************************************)
(* C8.  The returned list is ordered by non-increasing composite score     *)
(* predicted_grade * confidence - 0.1 * |2.5 - difficulty_score|.  As      *)
(* claimed, entries of equal score appear in the order their courses first *)
(* occur in the dataset.  The code keeps them in the order of the loop     *)
(* over the filtered rows: the order of each course's first row among the  *)
(* rows that passed the filters.                                           *)
(***************************************************************************)
C8_AsClaimed ==
    (Recommended /\ ~ret.raised) =>
        \A i, j \in 1..Len(ret.recs) :
            i < j =>
                /\ Composite(ret.recs[i]) >= Composite(ret.recs[j])
                /\ Composite(ret.recs[i]) = Composite(ret.recs[j]) =>
                       FirstOccurrence(ret.recs[i].course_code)
                           < FirstOccurrence(ret.recs[j].course_code)

C8_Amended ==
    (Recommended /\ ~ret.raised) =>
        \A i, j \in 1..Len(ret.recs) :
            i < j =>
                /\ Composite(ret.recs[i]) >= Composite(ret.recs[j])
                /\ Composite(ret.recs[i]) = Composite(ret.recs[j]) =>
                       FirstPassedRow(ret.recs[i].course_code)
                           < FirstPassedRow(ret.recs[j].course_code)

\* two entries of equal score, the first of a course whose first row in the
\* dataset comes after the other's
C8_Witness ==
    /\ Recommended /\ ~ret.raised
    /\ \E i, j \in 1..Len(ret.recs) :
          /\ i < j
          /\ Composite(ret.recs[i]) = Composite(ret.recs[j])
          /\ FirstOccurrence(ret.recs[i].course_code)
                > FirstOccurrence(ret.recs[j].course_code)

(***************************************************************************)
(* C9.  The returned list holds at most one entry per course code, and the *)
(* entry's term, credits and class_average are those of the first row, in  *)
(* dataset order, with that code among the rows that passed the filters.   *)
(***************************************************************************)
C9_FirstRowWins ==
    (Recommended /\ ~ret.raised) =>
        /\ \A i, j \in 1..Len(ret.recs) :
              i # j => ret.recs[i].course_code # ret.recs[j].course_code
        /\ \A i \in 1..Len(ret.recs) :
              /\ \E j \in PassedRows : df.rows[j].Course = ret.recs[i].course_code
              /\ LET row == df.rows[FirstPassedRow(ret.recs[i].course_code)] IN
                 /\ "Term Name" \in df.columns => ret.recs[i].term_offered = row.TermName
                 /\ "Credits" \in df.columns => ret.recs[i].credits = row.Credits
                 /\ "Class Ave" \in df.columns => ret.recs[i].class_average = row.ClassAve

\* an entry taken from a second row: the first row of its code was filtered out
C9_Witness ==
    /\ Recommended /\ ~ret.raised
    /\ AllColumns \subseteq df.columns
    /\ \E i \in 1..Len(ret.recs) :
          /\ FirstPassedRow(ret.recs[i].course_code) > 1
          /\ df.rows[1].Course = ret.recs[i].course_code
          /\ df.rows[1].ClassAve # ret.recs[i].class_average

C16_NeverRaises ==
    ((Predicted \/ Scored) /\ df.loaded /\ "Course" \in df.columns) =>
        /\ ~ret.raised
        /\ "Class Ave" \notin df.columns =>
              /\ Predicted => ret.predicted_grade = 0 /\ ret.confidence = 0
              /\ Scored => ret.difficulty_score = 25

(***************************************************************************)
(* C19.  predict_student_grade, calculate_difficulty_score and             *)
(* get_course_recommendations leave the dataset (rows, columns, row order) *)
(* and the student profile unchanged, for every argument combination and   *)
(* whatever they return.                                                   *)
(***************************************************************************)
Readers ==
    {"predict_student_grade", "calculate_difficulty_score", "get_course_recommendations"}

C19_FrameKept ==
    [][ret'.op \in Readers => df' = df /\ student_profile' = student_profile]_vars

\* a call with a profile whose filters and duplicate removal left fewer
\* candidates than the dataset has rows
C19_Witness ==
    /\ Recommended /\ ~ret.raised
    /\ student_profile.present
    /\ ret.recs # <<>>
    /\ ret.num_courses > Len(ret.recs)
    /\ Len(df.rows) > Len(ret.recs)

(***************************************************************************)
(* C20.  When the course has at least one present class average:  with a   *)
(* profile, predicted_grade is the clamp to [0, 4] of the mean of the      *)
(* present averages of all rows with that code + (current_gpa - 2.7) * 0.3 *)
(* + 0.2 if the code's first four characters are in strong_subjects, and   *)
(* confidence is 0.5 + 0.3 if the prefix is in strong_subjects + 0.2 if    *)
(* |difficulty - preference| <= 1;  without a profile the result is        *)
(* (clamped mean, 0.3).                                                    *)
(***************************************************************************)
\* the indices of the rows with the requested code and a present average
C20_Rows ==
    {i \in 1..Len(df.rows) :
        df.rows[i].Course = Upper(ret.course_code) /\ df.rows[i].ClassAve # NaN}

RECURSIVE C20_Sum(_)
C20_Sum(I) ==
    IF I = {} THEN 0
    ELSE LET i == CHOOSE k \in I : TRUE IN df.rows[i].ClassAve + C20_Sum(I \ {i})

\* the difficulty band, in tenths, of a mean of sum/(10 * n)
C20_Difficulty(sum, n) ==
    IF sum >= 37 * n THEN 15
    ELSE IF sum >= 33 * n THEN 20
    ELSE IF sum >= 30 * n THEN 25
    ELSE IF sum >= 27 * n THEN 30
    ELSE 35

\* the first four characters of the code as it was passed
C20_Strong == Slice(ret.course_code, 4) \in Range(student_profile.strong_subjects)

C20_Formula ==
    (Predicted /\ "Class Ave" \in df.columns /\ C20_Rows # {}) =>
        LET n == Cardinality(C20_Rows)
            sum == C20_Sum(C20_Rows)
            near == Abs(C20_Difficulty(sum, n)
                        - 10 * student_profile.difficulty_preference) <= 10
            \* 100 * n times the grade before the clamp, in units of 1/Scale
            raw == 10 * Scale * sum
                   + (IF student_profile.present
                      THEN n * Scale * (3 * (student_profile.current_gpa - 27)
                                        + (IF C20_Strong THEN 20 ELSE 0))
                      ELSE 0)
        IN /\ ~ret.raised
           /\ 100 * n * ret.predicted_grade = Max2(0, Min2(400 * n * Scale, raw))
           /\ ret.confidence =
                 IF student_profile.present
                 THEN 5 + (IF C20_Strong THEN 3 ELSE 0) + (IF near THEN 2 ELSE 0)
                 ELSE 3

\* a strong-subject course whose grade was cut to 4.0
C20_Witness ==
    /\ Predicted /\ ~ret.raised
    /\ C20_Rows # {}
    /\ student_profile.present /\ C20_Strong
    /\ ret.predicted_grade = 4 * Scale
    /\ ret.confidence = 10

(***************************************************************************)
(* C18.  When several /predict requests with different student_gpa values  *)
(* are handled concurrently against the one shared advisor, the            *)
(* predicted_grade and confidence of each response are those computed      *)
(* with that request's own student_gpa, under every interleaving.          *)
(***************************************************************************)
\* the profile the handler of request r means to predict with
C18_OwnProfile(r) ==
    [student_profile EXCEPT !.present = TRUE, !.current_gpa = ret[r].student_gpa]

C18_OwnGpa ==
    \A r \in Requests :
        ret[r].pc = "done" =>
            LET own == PredictOf(engine, df, C18_OwnProfile(r), ret[r].course_code) IN
            /\ ~ret[r].raised
            /\ ret[r].predicted_grade = own.value[1]
            /\ ret[r].confidence = own.value[2]

(***************************************************************************)
(* Vocabulary of the properties of load_grade_data.                        *)
(***************************************************************************)
\* load_grade_data has returned
Loaded == ret.pc = "done"

\* it returned after the cleaning
CleanedData == Loaded /\ ret.message = "cleaned"

\* the course-code cells of the parsed rows, in order
RawCodes ==
    [i \in 1..Len(ret.frame.rows) |-> ret.frame.rows[i][CourseColumn(ret.frame.headers)]]

\* the course codes of the dataset, in order
DataCodes == [i \in 1..Len(df.rows) |-> df.rows[i].Course]

RECURSIVE IsSubsequence(_, _)
IsSubsequence(a, b) ==
    IF a = <<>> THEN TRUE
    ELSE IF b = <<>> THEN FALSE
    ELSE IF Head(a) = Head(b) THEN IsSubsequence(Tail(a), Tail(b))
    ELSE IsSubsequence(a, Tail(b))

(***************************************************************************)
(* C11.  After the normalization of load_grade_data, by any parsing path,  *)
(* every retained row has a course code that is non-empty, has no leading  *)
(* or trailing whitespace and equals its upper-case form; rows whose cell  *)
(* is missing, empty or whitespace only are not retained.                  *)
(***************************************************************************)
C11_CodesNormalized ==
    CleanedData =>
        /\ \A i \in 1..Len(df.rows) :
              /\ df.rows[i].Course # <<>>
              /\ Strip(df.rows[i].Course) = df.rows[i].Course
              /\ Upper(df.rows[i].Course) = df.rows[i].Course
        /\ Len(df.rows) <= Cardinality({i \in 1..Len(RawCodes) :
                                           RawCodes[i] # Missing /\ Strip(RawCodes[i]) # <<>>})

(***************************************************************************)
(* C12.  After normalization no row has a course code containing "#REF!"   *)
(* or, compared case-insensitively, "nan": every raw row whose             *)
(* (normalized) code has such a substring is dropped, and every raw row    *)
(* with a non-empty code without one is retained.                          *)
(***************************************************************************)
C12_Marked(code) ==
    \/ Contains(code, <<"#", "R", "E", "F", "!">>)
    \/ Contains(Lower(code), <<"n", "a", "n">>)

\* the normalized codes of the raw rows the claim wants retained, in order
C12_Expected ==
    LET keep == SelectSeq(RawCodes, LAMBDA c :
                    c # Missing /\ c # <<>> /\ ~C12_Marked(Strip(Upper(c))))
    IN [i \in 1..Len(keep) |-> Strip(Upper(keep[i]))]

C12_MarkersDropped ==
    CleanedData =>
        /\ \A i \in 1..Len(df.rows) : ~C12_Marked(df.rows[i].Course)
        /\ IsSubsequence(C12_Expected, DataCodes)
        /\ Len(df.rows) <= Cardinality({i \in 1..Len(RawCodes) :
                                           /\ RawCodes[i] # Missing
                                           /\ ~C12_Marked(Strip(Upper(RawCodes[i])))})

\* a row with "nan" inside its code in another letter case was dropped and
\* another row was retained
C12_Witness ==
    /\ CleanedData
    /\ df.rows # <<>>
    /\ \E i \in 1..Len(RawCodes) :
          /\ RawCodes[i] # Missing
          /\ ~Contains(RawCodes[i], <<"n", "a", "n">>)
          /\ Contains(Lower(RawCodes[i]), <<"n", "a", "n">>)

(***************************************************************************)
(* C13.  The course-code column is found by comparing the header names     *)
(* with the candidate names up to letter case: a table whose course header *)
(* is "COURSE" or "course code" is normalized, and schema inference fails  *)
(* only when no header equals a candidate up to letter case.               *)
(***************************************************************************)
C13_IsCandidate(header) ==
    \E k \in 1..Len(possible_course_cols) : Lower(header) = Lower(possible_course_cols[k])

C13_CaseInsensitive ==
    (Loaded /\ ret.frame.parsed /\ ret.frame.rows # <<>>) =>
        IF \E i \in 1..Len(ret.frame.headers) : C13_IsCandidate(ret.frame.headers[i])
        THEN ret.message = "cleaned"
        ELSE ret.message = "no course column"

(***************************************************************************)
(* C14.  load_grade_data tries the five strategies in their order and      *)
(* accepts the result of the first that does not raise, attempting no      *)
(* later strategy after it; the manual parser is run if and only if all    *)
(* five raised.                                                            *)
(***************************************************************************)
C14_InOrder ==
    /\ ret.attempts = [j \in 1..Len(ret.attempts) |-> j]
    /\ Len(ret.attempts) <= NumStrategies
    /\ IF ret.accepted = 0
       THEN ret.raised = 1..Len(ret.attempts)
       ELSE /\ ret.accepted = Len(ret.attempts)
            /\ ret.raised = 1..(ret.accepted - 1)
    /\ ret.manual => ret.raised = 1..NumStrategies
    /\ (ret.pc \in {"clean", "done"} /\ ret.raised = 1..NumStrategies) => ret.manual

C14_FirstSuccessWins ==
    /\ []C14_InOrder
    /\ [][ret.accepted # 0 =>
             /\ ret'.attempts = ret.attempts
             /\ ret'.accepted = ret.accepted
             /\ ret'.frame = ret.frame
             /\ ~ret'.manual]_vars

\* the third strategy was accepted after two raised, and the data is cleaned
C14_Witness ==
    /\ CleanedData
    /\ ret.accepted = 3
    /\ ret.raised = {1, 2}
    /\ ~ret.manual

(***************************************************************************)
(* C15.  After a fatal failure of load_grade_data (file not found, every   *)
(* parsing path without data rows, no course-code column) the dataset is   *)
(* absent: df is None.                                                     *)
(***************************************************************************)
C15_NoDatasetOnFailure ==
    (Loaded /\ ret.message \in {"not found", "could not parse", "no course column"}) =>
        df = NoData

(***************************************************************************)
(* C17.  In the manual parser every emitted record has exactly as many     *)
(* fields as the header row: a line with fewer fields is padded at the end *)
(* with empty strings, a line with more is cut to the header's count, and  *)
(* every text is parsed (no line makes the parser raise).                  *)
(***************************************************************************)
\* the stripped non-blank lines of the text the manual parser read
C17_Lines ==
    LET stripped == [i \in 1..Len(ret.text) |-> Strip(ret.text[i])]
    IN SelectSeq(stripped, LAMBDA line : line # <<>>)

C17_RecordsFitHeader ==
    ret.manual =>
        /\ ret.frame.parsed <=> Len(C17_Lines) >= 2
        /\ ret.frame.parsed =>
              /\ ret.frame.headers = Tokenize(C17_Lines[1])
              /\ Len(ret.frame.rows) <= Len(C17_Lines) - 1
              /\ \A k \in 1..Len(ret.frame.rows) :
                    LET fields == Tokenize(C17_Lines[k + 1])
                        record == ret.frame.rows[k]
                    IN /\ Len(record) = Len(ret.frame.headers)
                       /\ \A j \in 1..Len(record) :
                             record[j] = IF j <= Len(fields) THEN fields[j] ELSE <<>>

\* a text with a line shorter and a line longer than its header
C17_Witness ==
    /\ ret.manual /\ ret.frame.parsed
    /\ \E k \in 2..Len(C17_Lines) : Len(Tokenize(C17_Lines[k])) < Len(ret.frame.headers)
    /\ \E k \in 2..Len(C17_Lines) : Len(Tokenize(C17_Lines[k])) > Len(ret.frame.headers)

(***************************************************************************)
(* C21.  calculate_difficulty_score maps the mean class average m of the   *)
(* matching rows to 1.5 if m >= 3.7, 2.0 if 3.3 <= m < 3.7, 2.5 if         *)
(* 3.0 <= m < 3.3, 3.0 if 2.7 <= m < 3.0 and 3.5 if m < 2.7; so of two     *)
(* courses the one with the higher mean never gets the higher difficulty.  *)
(***************************************************************************)
\* the mean class average of the rows of this code, in 1/Scale grade points
C21_Mean(code) == MeanAve(CourseData(df, Upper(code)))

C21_HasMean(code) ==
    /\ df.loaded /\ {"Course", "Class Ave"} \subseteq df.columns
    /\ \E i \in 1..Len(df.rows) :
          df.rows[i].Course = Upper(code) /\ df.rows[i].ClassAve # NaN

C21_InBand(m, difficulty) ==
    /\ 10 * m >= 37 * Scale => difficulty = 15
    /\ (10 * m >= 33 * Scale /\ 10 * m < 37 * Scale) => difficulty = 20
    /\ (10 * m >= 30 * Scale /\ 10 * m < 33 * Scale) => difficulty = 25
    /\ (10 * m >= 27 * Scale /\ 10 * m < 30 * Scale) => difficulty = 30
    /\ 10 * m < 27 * Scale => difficulty = 35

C21_BandsMonotone ==
    /\ (Scored /\ C21_HasMean(ret.course_code)) =>
          ~ret.raised /\ C21_InBand(C21_Mean(ret.course_code), ret.difficulty_score)
    /\ (Recommended /\ ~ret.raised) =>
          \A i, j \in 1..Len(ret.recs) :
              (/\ C21_HasMean(ret.recs[i].course_code)
               /\ C21_HasMean(ret.recs[j].course_code)
               /\ C21_Mean(ret.recs[i].course_code) > C21_Mean(ret.recs[j].course_code))
                  => ret.recs[i].difficulty_score <= ret.recs[j].difficulty_score

\* a list holds a course whose mean is exactly 3.7, scored 1.5, above a
\* course of lower mean and higher difficulty
C21_Witness ==
    /\ Recommended /\ ~ret.raised
    /\ \E i, j \in 1..Len(ret.recs) :
          /\ C21_HasMean(ret.recs[i].course_code)
          /\ C21_HasMean(ret.recs[j].course_code)
          /\ 10 * C21_Mean(ret.recs[i].course_code) = 37 * Scale
          /\ C21_Mean(ret.recs[i].course_code) > C21_Mean(ret.recs[j].course_code)
          /\ ret.recs[i].difficulty_score = 15
          /\ ret.recs[j].difficulty_score > 15

(***************************************************************************)
(* C22.  The manual tokenizer takes the first non-empty line as the header *)
(* and emits exactly one record, in input order, for every later line that *)
(* is non-empty after trimming; blank lines produce no record and do not   *)
(* change which other lines are emitted, whatever their number and         *)
(* position.                                                               *)
(***************************************************************************)
\* the lines of the text read that are non-empty after trimming
C22_Lines == SelectSeq(ret.text, LAMBDA l : Strip(l) # <<>>)

\* the manual parser has read a text with a header line
C22_Parsed == ret.manual /\ ret.pc \in {"clean", "done"} /\ C22_Lines # <<>>

\* the records emitted: those of the frame, none when no frame was built
C22_Records == IF ret.frame.parsed THEN ret.frame.rows ELSE <<>>

C22_OneRecordPerLine ==
    C22_Parsed =>
        /\ Len(C22_Records) = Len(C22_Lines) - 1
        /\ ret.frame.parsed => ret.frame.headers = Tokenize(Strip(C22_Lines[1]))
        /\ \A i \in 1..Len(C22_Records) :
              C22_Records[i] =
                  PadOrTruncate(Tokenize(Strip(C22_Lines[i + 1])), Len(Tokenize(Strip(C22_Lines[1]))))

(***************************************************************************)
(* C23.  The manual tokenizer splits a line at a comma only when the       *)
(* number of double quotes before it on that line is even: a quote toggles *)
(* the quoted state, a comma in the quoted state stays in the field, and   *)
(* every line starts not quoted.                                           *)
(***************************************************************************)
\* the commas of the line with an even number of double quotes before them
C23_SplitPoints(line) ==
    {i \in 1..Len(line) :
        /\ line[i] = Comma
        /\ Cardinality({k \in 1..(i - 1) : line[k] = Quote}) % 2 = 0}

\* the fields between these commas, without the quotes, trimmed
C23_Fields(line) ==
    LET points == C23_SplitPoints(line)
        n == Cardinality(points)
        At(k) == CHOOSE q \in points : Cardinality({r \in points : r < q}) = k - 1
        First(k) == IF k = 1 THEN 1 ELSE At(k - 1) + 1
        Last(k) == IF k = n + 1 THEN Len(line) ELSE At(k) - 1
    IN [k \in 1..(n + 1) |->
           CloseField(SelectSeq(SubSeq(line, First(k), Last(k)), LAMBDA c : c # Quote))]

C23_SplitOutsideQuotes ==
    (C22_Parsed /\ ret.frame.parsed) =>
        /\ ret.frame.headers = C23_Fields(Strip(C22_Lines[1]))
        /\ \A i \in 1..Len(ret.frame.rows) :
              ret.frame.rows[i] =
                  PadOrTruncate(C23_Fields(Strip(C22_Lines[i + 1])), Len(ret.frame.headers))

\* a record keeps the comma of a quoted field, and the record of the line
\* after a line with an unclosed quote was split at its comma
C23_Witness ==
    /\ C22_Parsed /\ ret.frame.parsed
    /\ Len(ret.frame.rows) = 2
    /\ Len(ret.frame.headers) = 2
    /\ ret.frame.rows[1] = <<<<"x", ",", "1">>, <<>>>>
    /\ ret.frame.rows[2][1] = <<"a", ",", "b">>
    /\ ret.frame.rows[2][2] = <<"3", ".", "5">>

(***************************************************************************)
(* C24.  Every recommendation's reasons are a subsequence of the fixed     *)
(* order [predicted grade >= 3.5, class average >= 3.5, subject in         *)
(* strong_subjects, difficulty within 0.5 of the preference, difficulty    *)
(* <= 2.0] and its warnings a subsequence of [difficulty >= 3.2, predicted *)
(* grade < 2.7, GPA < 3.0 and difficulty > 3.0]; a rule's string is        *)
(* present exactly when its condition holds, at most once; without a       *)
(* profile the profile rules contribute nothing and nothing raises.        *)
(***************************************************************************)
C24_ReasonOrder ==
    <<"High predicted grade", "Historically high class average", "Matches your strength",
      "Good difficulty match for your preferences", "Manageable difficulty level">>

C24_WarningOrder ==
    <<"High difficulty course", "Below-average predicted performance",
      "May be challenging given current GPA">>

\* whether the k-th reason rule applies to the recommendation
C24_ReasonHolds(rec, k) ==
    CASE k = 1 -> 10 * rec.predicted_grade >= 35 * Scale
      [] k = 2 -> rec.class_average # NaN /\ rec.class_average >= 35
      [] k = 3 -> /\ student_profile.present
                  /\ Len(rec.course_code) >= 4
                  /\ SubSeq(rec.course_code, 1, 4) \in Range(student_profile.strong_subjects)
      [] k = 4 -> /\ student_profile.present
                  /\ rec.difficulty_score - 10 * student_profile.difficulty_preference <= 5
                  /\ 10 * student_profile.difficulty_preference - rec.difficulty_score <= 5
      [] k = 5 -> rec.difficulty_score <= 20

\* whether the k-th warning rule applies to the recommendation
C24_WarningHolds(rec, k) ==
    CASE k = 1 -> rec.difficulty_score >= 32
      [] k = 2 -> 10 * rec.predicted_grade < 27 * Scale
      [] k = 3 -> /\ student_profile.present
                  /\ student_profile.current_gpa < 30
                  /\ rec.difficulty_score > 30

\* list holds the strings of order at the positions applied, each once, in
\* that order
C24_Follows(list, order, applied) ==
    /\ Len(list) = Cardinality(applied)
    /\ \A i \in 1..Len(list) :
          \E k \in applied :
              /\ list[i] = order[k]
              /\ Cardinality({j \in applied : j < k}) = i - 1

C24_RulesInOrder ==
    Recommended =>
        /\ ~student_profile.present => ~ret.raised
        /\ \A i \in 1..Len(ret.recs) :
              /\ C24_Follows(ret.recs[i].reasons, C24_ReasonOrder,
                             {k \in 1..5 : C24_ReasonHolds(ret.recs[i], k)})
              /\ C24_Follows(ret.recs[i].warnings, C24_WarningOrder,
                             {k \in 1..3 : C24_WarningHolds(ret.recs[i], k)})

\* a list with a recommendation that has all five reasons and no warning,
\* and one that has some of the reasons only
C24_Witness ==
    /\ Recommended /\ ~ret.raised
    /\ student_profile.present
    /\ \E i \in 1..Len(ret.recs) :
          /\ ret.recs[i].reasons = C24_ReasonOrder
          /\ ret.recs[i].warnings = <<>>
    /\ \E i \in 1..Len(ret.recs) : Len(ret.recs[i].reasons) \in 1..4

(***************************************************************************)
(* C25.  create_student_profile sets strong_subjects to at most three      *)
(* distinct 4-character prefixes of the completed courses that have at     *)
(* least 4 characters, in non-increasing order of the number of completed  *)
(* courses that share the prefix, and no omitted prefix is more frequent   *)
(* than an included one.                                                   *)
(***************************************************************************)
\* the profile was just created
Created == ret.op = "create_student_profile" /\ student_profile.present

\* the completed courses of the profile that start with this prefix
C25_Sharing(prefix) ==
    {i \in 1..Len(student_profile.completed_courses) :
        /\ Len(student_profile.completed_courses[i]) >= 4
        /\ SubSeq(student_profile.completed_courses[i], 1, 4) = prefix}

\* the 4-character prefixes of the completed courses of the profile
C25_Prefixes ==
    {SubSeq(student_profile.completed_courses[i], 1, 4) :
        i \in {j \in 1..Len(student_profile.completed_courses) :
                  Len(student_profile.completed_courses[j]) >= 4}}

C25_TopThree ==
    Created =>
        LET strong == student_profile.strong_subjects IN
        /\ Len(strong) <= 3
        /\ \A i, j \in 1..Len(strong) : i # j => strong[i] # strong[j]
        /\ \A i \in 1..Len(strong) : strong[i] \in C25_Prefixes
        /\ \A i, j \in 1..Len(strong) :
              i < j => Cardinality(C25_Sharing(strong[i])) >= Cardinality(C25_Sharing(strong[j]))
        /\ \A x \in C25_Prefixes \ Range(strong) :
              \A i \in 1..Len(strong) :
                  Cardinality(C25_Sharing(x)) <= Cardinality(C25_Sharing(strong[i]))

\* four subjects were taken, the first of the list once and a later one
\* twice; one subject is left out of the three strong ones
C25_Witness ==
    /\ Created
    /\ Cardinality(C25_Prefixes) = 4
    /\ Len(student_profile.strong_subjects) = 3
    /\ Cardinality(C25_Sharing(student_profile.strong_subjects[1])) = 2
    /\ Cardinality(C25_Sharing(SubSeq(student_profile.completed_courses[1], 1, 4))) = 1

(***************************************************************************)
(* C26.  _identify_strong_subjects identifies subjects where the student   *)
(* has taken multiple courses: every subject of the returned list is the   *)
(* 4-character prefix of at least two of the completed courses.            *)
(***************************************************************************)
C26_MultipleCourses ==
    Created =>
        \A i \in 1..Len(student_profile.strong_subjects) :
            Cardinality(C25_Sharing(student_profile.strong_subjects[i])) >= 2

(***************************************************************************)
(* C27.  predict_student_grade is insensitive to the letter case of its    *)
(* course_code argument: two codes that differ only in letter case get the *)
(* same (predicted_grade, confidence), the strong-subject bonus included.  *)
(***************************************************************************)
\* what the same advisor returns for the upper-cased code
C27_ForUpper == PredictOf(engine, df, student_profile, Upper(ret.course_code))

C27_CaseInsensitive ==
    Predicted =>
        /\ ret.raised = C27_ForUpper.raised
        /\ ~ret.raised =>
              /\ ret.predicted_grade = C27_ForUpper.value[1]
              /\ ret.confidence = C27_ForUpper.value[2]

(***************************************************************************)
(* C28.  The confidence predict_student_grade returns is one of 0.0, 0.3,  *)
(* 0.5, 0.7, 0.8, 1.0: 0.0 exactly when the no-data sentinel is returned,  *)
(* 0.3 exactly when there is data and no profile, at least 0.5 when there  *)
(* is data and a profile; the bonuses sum to at most 1.0, so the upper     *)
(* clamp never changes the value.                                          *)
(***************************************************************************)
\* the call found no class average for its code
C28_NoData == ~df.loaded \/ NoAverageFor(ret.course_code)

\* the bonuses of the call, each from its own condition
C28_StrongBonus ==
    IF /\ Len(ret.course_code) >= 4
       /\ SubSeq(ret.course_code, 1, 4) \in Range(student_profile.strong_subjects)
    THEN 3 ELSE 0

C28_DifficultyBonus ==
    LET difficulty == DifficultyOf(engine, df, ret.course_code).value
        preference == 10 * student_profile.difficulty_preference
    IN IF difficulty - preference <= 10 /\ preference - difficulty <= 10 THEN 2 ELSE 0

C28_ConfidenceLevels ==
    (Predicted /\ ~ret.raised) =>
        /\ ret.confidence \in {0, 3, 5, 7, 8, 10}
        /\ ret.confidence = 0 <=> C28_NoData
        /\ ret.confidence = 0 <=> (ret.predicted_grade = 0 /\ ret.confidence = 0)
        /\ ret.confidence = 3 <=> (~C28_NoData /\ ~student_profile.present)
        /\ (~C28_NoData /\ student_profile.present) =>
              /\ ret.confidence >= 5
              /\ ret.confidence = 3 + 2 + C28_StrongBonus + C28_DifficultyBonus
              /\ 3 + 2 + C28_StrongBonus + C28_DifficultyBonus <= 10

\* both bonuses were earned: the sum is exactly 1.0
C28_Witness ==
    /\ Predicted /\ ~ret.raised
    /\ ~C28_NoData /\ student_profile.present
    /\ C28_StrongBonus = 3 /\ C28_DifficultyBonus = 2
    /\ ret.confidence = 10

(***************************************************************************)
(* C29.  In every recommendation the GPA warning (GPA < 3.0 and            *)
(* difficulty > 3.0) is present only if the high-difficulty warning        *)
(* (difficulty >= 3.2) is present too, the difficulty being one of the     *)
(* five band values; and the high-difficulty warning never comes with the  *)
(* reason "Manageable difficulty level".                                   *)
(***************************************************************************)
C29_Warned(rec, text) == \E k \in 1..Len(rec.warnings) : rec.warnings[k] = text

C29_Manageable(rec) ==
    \E k \in 1..Len(rec.reasons) : rec.reasons[k] = "Manageable difficulty level"

C29_WarningsCohere ==
    Recommended =>
        \A i \in 1..Len(ret.recs) :
            /\ C29_Warned(ret.recs[i], "May be challenging given current GPA")
                  => C29_Warned(ret.recs[i], "High difficulty course")
            /\ ~(/\ C29_Warned(ret.recs[i], "High difficulty course")
                  /\ C29_Manageable(ret.recs[i]))

\* a list with a course that has both warnings and a manageable course that
\* has neither
C29_Witness ==
    /\ Recommended /\ ~ret.raised
    /\ \E i \in 1..Len(ret.recs) :
          /\ C29_Warned(ret.recs[i], "May be challenging given current GPA")
          /\ C29_Warned(ret.recs[i], "High difficulty course")
    /\ \E i \in 1..Len(ret.recs) :
          /\ C29_Manageable(ret.recs[i])
          /\ ~C29_Warned(ret.recs[i], "High difficulty course")

(***************************************************************************)
(* C30.  The two copies of the engine agree: for every normalized dataset  *)
(* with a class-average column, every profile built by                     *)
(* create_student_profile (or none) and every course code,                 *)
(* predict_student_grade and calculate_difficulty_score return the same    *)
(* values in both copies, and get_course_recommendations returns the same  *)
(* course codes in the same order.                                         *)
(***************************************************************************)
\* the dataset is normalized and has a class-average column
C30_HasAverages == df.loaded /\ {"Course", "Class Ave"} \subseteq df.columns

\* the course codes of a list of recommendations, in its order
C30_Codes(recs) == [i \in 1..Len(recs) |-> recs[i].course_code]

\* the copy the advisor of this state was not built from
C30_OtherCopy == IF engine = "root" THEN "backend" ELSE "root"

\* what the other copy returns for the call in ret
C30_OtherPrediction == PredictOf(C30_OtherCopy, df, student_profile, ret.course_code)

C30_OtherDifficulty == DifficultyOf(C30_OtherCopy, df, ret.course_code)

C30_OtherRecommendations ==
    get_course_recommendations(C30_OtherCopy, df, student_profile, ret.num_courses,
                               ret.exclude_completed, ret.min_credits, ret.subject_filter)

C30_CopiesAgree ==
    C30_HasAverages =>
        /\ Predicted =>
              /\ ~ret.raised
              /\ C30_OtherPrediction = Returns(<<ret.predicted_grade, ret.confidence>>)
        /\ Scored =>
              /\ ~ret.raised
              /\ C30_OtherDifficulty = Returns(ret.difficulty_score)
        /\ Recommended =>
              /\ ~ret.raised
              /\ LET other == C30_OtherRecommendations
                 IN ~other.raised /\ C30_Codes(other.value) = C30_Codes(ret.recs)

\* the backend copy returned two recommendations for a student with a
\* profile, in the order the root copy gives
C30_Witness ==
    /\ C30_HasAverages
    /\ Recommended /\ ~ret.raised
    /\ engine = "backend"
    /\ student_profile.present
    /\ Len(ret.recs) = 2
    /\ C30_Codes(C30_OtherRecommendations.value) = C30_Codes(ret.recs)

====
